---------------------------- MODULE Spec2Model ----------------------------
(***************************************************************************)
(* MicrowaveVM (src/main.py): a two-register Minsky machine with its      *)
(* two-pass loader.                                                        *)
(*                                                                         *)
(* Program text is a sequence of lines; a line is a sequence of lexemes,   *)
(* each lexeme a literal piece of the line: one of the separator           *)
(* characters " "  ","  ";"  "#"  ":" or a maximal run of other            *)
(* characters (a word).  Concatenating the lexemes of a line gives the     *)
(* line, so two pieces of text are equal exactly when their lexeme         *)
(* sequences are equal.  The program counter is 0-based as in the source;  *)
(* program[pc + 1] is the instruction it designates.                       *)
(***************************************************************************)
EXTENDS Integers, Sequences, FiniteSets, TLC

(***************************************************************************)
(* Bounds of the model.                                                    *)
(***************************************************************************)
\* largest register value explored
MaxVal == 5
\* registers are explored down to -MaxNeg
MaxNeg == 2
\* largest seed passed to reset_registers
MaxSeed == 3
\* largest step budget passed to run
MaxBudget == 3

\* largest step counter explored: the longest run of the programs below on
\* registers up to MaxVal
MaxSteps == 3 * MaxVal + 2

(***************************************************************************)
(* Text helpers: str.split(c, 1)[0], str.strip, str.upper, int.            *)
(***************************************************************************)
\* raw.split(c, 1)[0]: the part of the line before the first c
CutAt(line, c) ==
  IF \E i \in 1..Len(line) : line[i] = c
    THEN SubSeq(line, 1, (CHOOSE i \in 1..Len(line) :
                            line[i] = c /\ \A j \in 1..(i-1) : line[j] # c) - 1)
    ELSE line

RECURSIVE LStrip(_)
LStrip(line) ==
  IF line # <<>> /\ Head(line) = " " THEN LStrip(Tail(line)) ELSE line

RECURSIVE RStrip(_)
RStrip(line) ==
  IF line # <<>> /\ line[Len(line)] = " "
    THEN RStrip(SubSeq(line, 1, Len(line) - 1)) ELSE line

\* str.strip()
Strip(line) == RStrip(LStrip(line))

\* raw.split(';', 1)[0].split('#', 1)[0].strip()
Normalize(raw) == Strip(CutAt(CutAt(raw, ";"), "#"))

\* line.endswith(':')
EndsWithColon(line) == line # <<>> /\ line[Len(line)] = ":"

\* line[:-1].strip()
LabelOf(line) == Strip(SubSeq(line, 1, Len(line) - 1))

\* line.replace(',', ' ')
ReplaceCommas(line) ==
  [i \in 1..Len(line) |-> IF line[i] = "," THEN " " ELSE line[i]]

\* str.split(): the maximal runs of non-blank lexemes, in order
RECURSIVE SplitWs(_, _, _)
SplitWs(line, cur, acc) ==
  IF line = <<>>
    THEN IF cur = <<>> THEN acc ELSE Append(acc, cur)
    ELSE IF Head(line) = " "
      THEN SplitWs(Tail(line), <<>>, IF cur = <<>> THEN acc ELSE Append(acc, cur))
      ELSE SplitWs(Tail(line), Append(cur, Head(line)), acc)

\* line.replace(',', ' ').split()
Tokens(line) == SplitWs(ReplaceCommas(line), <<>>, <<>>)

\* str.upper() on the words that occur in the programs below; a word without
\* a lower-case letter is its own upper case
UpperWord(w) ==
  CASE w = "set"   -> "SET"
    [] w = "inc"   -> "INC"
    [] w = "decjz" -> "DECJZ"
    [] w = "goto"  -> "GOTO"
    [] w = "print" -> "PRINT"
    [] w = "halt"  -> "HALT"
    [] w = "Halt"  -> "HALT"
    [] w = "time"  -> "TIME"
    [] w = "Time"  -> "TIME"
    [] w = "power" -> "POWER"
    [] w = "spin"  -> "SPIN"
    [] w = "x"     -> "X"
    [] w = "now"   -> "NOW"
    [] OTHER       -> w

Upper(tok) == [i \in 1..Len(tok) |-> UpperWord(tok[i])]

\* the words int() accepts, with their values
IntLits == {"0", "1", "2", "3", "-1", "+2", "-0"}

\* int(tok) succeeds
IsInt(tok) == Len(tok) = 1 /\ tok[1] \in IntLits

\* int(tok)
IntOf(tok) ==
  CASE tok[1] = "0"  -> 0
    [] tok[1] = "1"  -> 1
    [] tok[1] = "2"  -> 2
    [] tok[1] = "3"  -> 3
    [] tok[1] = "-1" -> 0 - 1
    [] tok[1] = "+2" -> 2
    [] tok[1] = "-0" -> 0

RegNames == {"TIME", "POWER"}

\* tok.upper() in ("TIME", "POWER")
IsReg(tok) == Len(tok) = 1 /\ UpperWord(tok[1]) \in RegNames

\* regname(s) in step()
regname(tok) == UpperWord(tok[1])

(***************************************************************************)
(* The loader: load_program's two passes over the lines.                   *)
(***************************************************************************)
EmptyLabels == [k \in {} |-> 0]

\* First pass giving a label definition an instruction slot of its own
RECURSIVE Pass1CountingLabels(_, _, _)
Pass1CountingLabels(lines, idx, labs) ==
  IF lines = <<>> THEN [labels |-> labs, idx |-> idx, err |-> "none"]
  ELSE LET line == Normalize(Head(lines)) IN
    IF line = <<>> THEN Pass1CountingLabels(Tail(lines), idx, labs)
    ELSE IF EndsWithColon(line)
      THEN LET label == LabelOf(line) IN
        IF label = <<>>
          THEN [labels |-> labs, idx |-> idx, err |-> "EmptyLabel"]
        ELSE IF label \in DOMAIN labs
          THEN [labels |-> labs, idx |-> idx, err |-> "DuplicateLabel"]
        ELSE Pass1CountingLabels(Tail(lines), idx + 1, (label :> idx) @@ labs)
      ELSE Pass1CountingLabels(Tail(lines), idx + 1, labs)

\* First pass: collect labels.  Yields the label table built so far and the
\* error raised ("none" when the pass completes).
RECURSIVE Pass1(_, _, _)
Pass1(lines, idx, labs) ==
  IF lines = <<>> THEN [labels |-> labs, idx |-> idx, err |-> "none"]
  ELSE LET line == Normalize(Head(lines)) IN
    IF line = <<>> THEN Pass1(Tail(lines), idx, labs)
    ELSE IF EndsWithColon(line)
      THEN LET label == LabelOf(line) IN
        IF label = <<>>
          THEN [labels |-> labs, idx |-> idx, err |-> "EmptyLabel"]
        ELSE IF label \in DOMAIN labs
          THEN [labels |-> labs, idx |-> idx, err |-> "DuplicateLabel"]
        ELSE Pass1(Tail(lines), idx, (label :> idx) @@ labs)
      ELSE Pass1(Tail(lines), idx + 1, labs)

\* Basic validation of one instruction line: the error it raises
Validate(op, args) ==
  CASE op = <<"SET">> ->
         IF Len(args) # 2 THEN "Parse"
         ELSE IF ~IsReg(args[1]) THEN "Parse"
         ELSE IF ~IsInt(args[2]) THEN "Parse"
         ELSE "none"
    [] op = <<"INC">> ->
         IF Len(args) # 1 \/ ~IsReg(args[1]) THEN "Parse" ELSE "none"
    [] op = <<"DECJZ">> ->
         IF Len(args) # 2 \/ ~IsReg(args[1]) THEN "Parse" ELSE "none"
    [] op = <<"GOTO">> ->
         IF Len(args) # 1 THEN "Parse" ELSE "none"
    [] op = <<"PRINT">> ->
         IF Len(args) # 0 THEN "Parse" ELSE "none"
    [] op = <<"HALT">> ->
         IF Len(args) # 0 THEN "Parse" ELSE "none"
    [] OTHER -> "UnknownOpcode"

\* Second pass putting each instruction in front of the earlier ones
RECURSIVE Pass2Prepending(_, _)
Pass2Prepending(lines, prog) ==
  IF lines = <<>> THEN [program |-> prog, err |-> "none"]
  ELSE LET line == Normalize(Head(lines)) IN
    IF line = <<>> \/ EndsWithColon(line)
      THEN Pass2Prepending(Tail(lines), prog)
    ELSE LET tokens == Tokens(line)
             op     == Upper(tokens[1])
             args   == Tail(tokens)
             e      == Validate(op, args)
         IN IF e # "none" THEN [program |-> prog, err |-> e]
            ELSE Pass2Prepending(Tail(lines),
                                 << [op |-> op[1], args |-> args] >> \o prog)

\* Second pass: parse instructions.  Yields the instructions appended so far
\* and the error raised ("none" when the pass completes).
RECURSIVE Pass2(_, _)
Pass2(lines, prog) ==
  IF lines = <<>> THEN [program |-> prog, err |-> "none"]
  ELSE LET line == Normalize(Head(lines)) IN
    IF line = <<>> \/ EndsWithColon(line) THEN Pass2(Tail(lines), prog)
    ELSE LET tokens == Tokens(line)
             op     == Upper(tokens[1])
             args   == Tail(tokens)
             e      == Validate(op, args)
         IN IF e # "none" THEN [program |-> prog, err |-> e]
            ELSE Pass2(Tail(lines), Append(prog, [op |-> op[1], args |-> args]))

\* self.program.clear() forgotten
KeepProgram(prog) == prog

\* self.program.clear()
ClearProgram(prog) == << >>

\* self.labels.clear()
ClearLabels(labs) == EmptyLabels

\* What load_program(source) leaves in self.program and self.labels of a
\* machine that held prog0 and labs0, and the error it raises
load_program(source, prog0, labs0) ==
  LET p1 == Pass1(source, 0, ClearLabels(labs0)) IN
    IF p1.err # "none"
      THEN [program |-> ClearProgram(prog0), labels |-> p1.labels,
            err |-> p1.err]
      ELSE LET p2 == Pass2(source, ClearProgram(prog0)) IN
        [program |-> p2.program, labels |-> p1.labels, err |-> p2.err]

\* What load_program(source) leaves in self.program and self.labels of a
\* newly constructed machine, and the error it raises
LoadResult(source) == load_program(source, << >>, EmptyLabels)

(***************************************************************************)
(* Program texts handed to load_program.                                   *)
(***************************************************************************)
\* ADD: TIME := TIME + POWER ; POWER := 0
ADD_PROGRAM == <<
  <<>>,
  <<" ", " ", " ", " ", ";", " ", "Precondition", ":", " ", "TIME", " ", "=",
    " ", "a", ",", " ", "POWER", " ", "=", " ", "b">>,
  <<" ", " ", " ", " ", ";", " ", "Post", ":", " ", " ", "TIME", " ", "=",
    " ", "a+b", ",", " ", "POWER", " ", "=", " ", "0">>,
  <<"loop", ":">>,
  <<" ", " ", " ", " ", "DECJZ", " ", "POWER", " ", "end">>,
  <<" ", " ", " ", " ", "INC", " ", "TIME">>,
  <<" ", " ", " ", " ", "GOTO", " ", "loop">>,
  <<"end", ":">>,
  <<" ", " ", " ", " ", "HALT">> >>

\* loop: DECJZ TIME end; GOTO loop; end:
COUNTDOWN_TIME == <<
  <<"loop", ":">>,
  <<"DECJZ", " ", "TIME", " ", "end">>,
  <<"GOTO", " ", "loop">>,
  <<"end", ":">> >>

\* the same loop on POWER, in lower case, with a comma and comments
COUNTDOWN_POWER == <<
  <<"#", " ", "count", " ", "POWER", " ", "down">>,
  <<"loop", " ", ":", " ", ";", " ", "top">>,
  <<" ", "decjz", " ", "power", ",", " ", "end", " ", "#", " ", "test">>,
  <<>>,
  <<" ", "goto", " ", "loop">>,
  <<"end", ":">> >>

\* PRINT three times, TIME and POWER incremented in between
PRINT_PROGRAM == <<
  <<"PRINT">>,
  <<"INC", " ", "TIME">>,
  <<"print">>,
  <<"INC", " ", "POWER">>,
  <<"INC", " ", "TIME">>,
  <<"PRINT">> >>

\* never halts
SPIN_PROGRAM == <<
  <<"spin", ":">>,
  <<"GOTO", " ", "spin">> >>

\* a forward reference, and a GOTO whose label is never defined
JUMP_PROGRAM == <<
  <<"DECJZ", " ", "TIME", " ", "fwd">>,
  <<"GOTO", " ", "nowhere">>,
  <<"fwd", ":">>,
  <<"HALT">> >>

\* a DECJZ whose label is never defined
MISSING_PROGRAM == <<
  <<"DECJZ", " ", "POWER", " ", "missing">>,
  <<"PRINT">>,
  <<"Halt">> >>

\* SET with signed literals
SET_PROGRAM == <<
  <<"SET", " ", "TIME", ",", " ", "-1">>,
  <<"set", " ", "power", " ", "+2">>,
  <<"HALT">> >>

EMPTY_PROGRAM == << >>

\* the spec's bad-opcode text
FOO_PROGRAM == << <<"FOO", " ", "TIME">> >>

\* a label and an instruction precede the bad opcode
PARTIAL_PROGRAM == <<
  <<"a", ":">>,
  <<"INC", " ", "TIME">>,
  <<"FOO", " ", "TIME">>,
  <<"HALT">> >>

\* foo: twice
DUPLICATE_PROGRAM == <<
  <<"foo", ":">>,
  <<"HALT">>,
  <<"foo", ":">> >>

\* a label definition without a name, after a good one
EMPTYLABEL_PROGRAM == <<
  <<"x", ":">>,
  <<" ", ":", " ">> >>

\* label and instruction on one line: the first token is no opcode
SAMELINE_PROGRAM == << <<"spin", ":", " ", "GOTO", " ", "spin">> >>

\* wrong shapes
BADSET_PROGRAM == << <<"HALT">>, <<"SET", " ", "TIME", " ", "x">> >>

BADINC_PROGRAM == << <<"INC", " ", "X">> >>

BADHALT_PROGRAM == << <<"PRINT">>, <<"HALT", " ", "now">> >>

Sources == <<
  ADD_PROGRAM, COUNTDOWN_TIME, COUNTDOWN_POWER, PRINT_PROGRAM, SPIN_PROGRAM,
  JUMP_PROGRAM, MISSING_PROGRAM, SET_PROGRAM, EMPTY_PROGRAM, FOO_PROGRAM,
  PARTIAL_PROGRAM, DUPLICATE_PROGRAM, EMPTYLABEL_PROGRAM, SAMELINE_PROGRAM,
  BADSET_PROGRAM, BADINC_PROGRAM, BADHALT_PROGRAM >>

SourceIds == 1..Len(Sources)

\* load_program applied to each text
Loaded == [s \in SourceIds |-> LoadResult(Sources[s])]

(***************************************************************************)
(* The machine.                                                            *)
(***************************************************************************)
VARIABLES
  registers,  \* self.registers
  program,    \* self.program
  labels,     \* self.labels
  pc,         \* self.pc
  halted,     \* self.halted
  steps,      \* self.steps
  out,        \* what print() has written since the last load_program or
              \* reset_registers call
  running,    \* a run() call is inside its while loop
  max_steps,  \* the max_steps of the run() call that acted last (None or a
              \* number; None after any other call)
  call,       \* the method that acted last
  err,        \* the exception it raised, "none" if it has not raised
  did,        \* what it did last: "noop" (step() found the machine halted),
              \* "implicit" (step() found pc out of bounds), the opcode
              \* step() fetched, "return" or "raise" (run() left its loop)
  src,        \* the text last handed to load_program (0: none yet)
  began,      \* self.steps at the start of the run() call that acted last (0
              \* after any other call)
  seeded,     \* self.registers at the last load_program, or the values
              \* passed to reset_registers if that was called since
  decjz,      \* DECJZ executions since the last load_program or
              \* reset_registers call, by branch taken
  fetches     \* instructions fetched since the last load_program or
              \* reset_registers call

vars == << registers, program, labels, pc, halted, steps, out, running,
           max_steps, call, err, did, src, began, seeded, decjz, fetches >>

\* Python's None, as a max_steps
None == 0 - 1

\* print(f"TIME: {v}") and print("BEEEEEEP!")
PrintEvent(v) == << "TIME", v >>

HaltEvent == << "BEEEEEEP!" >>

\* the part of the machine step() reads and writes, with what it printed and
\* raised
Machine == [registers |-> registers, pc |-> pc, halted |-> halted,
            steps |-> steps, out |-> out, err |-> "none"]

\* SET adding v to r
ExecSETAdding(m, instr) ==
  [m EXCEPT !.registers[regname(instr.args[1])] = @ + IntOf(instr.args[2]),
            !.pc = @ + 1]

\* SET r v
ExecSET(m, instr) ==
  [m EXCEPT !.registers[regname(instr.args[1])] = IntOf(instr.args[2]),
            !.pc = @ + 1]

\* INC adding 2
ExecINCTwice(m, instr) ==
  [m EXCEPT !.registers[regname(instr.args[1])] = @ + 2,
            !.pc = @ + 1]

\* INC r
ExecINC(m, instr) ==
  [m EXCEPT !.registers[regname(instr.args[1])] = @ + 1,
            !.pc = @ + 1]

\* DECJZ decrementing a register that is 0 before it jumps
ExecDECJZBelowZero(m, instr, labs) ==
  LET r      == regname(instr.args[1])
      target == instr.args[2]
  IN IF m.registers[r] = 0
       THEN IF target \notin DOMAIN labs
              THEN [m EXCEPT !.err = "UnknownLabel"]
              ELSE [m EXCEPT !.registers[r] = @ - 1, !.pc = labs[target]]
       ELSE [m EXCEPT !.registers[r] = @ - 1, !.pc = @ + 1]

\* DECJZ not advancing pc after the decrement
ExecDECJZStays(m, instr, labs) ==
  LET r      == regname(instr.args[1])
      target == instr.args[2]
  IN IF m.registers[r] = 0
       THEN IF target \notin DOMAIN labs
              THEN [m EXCEPT !.err = "UnknownLabel"]
              ELSE [m EXCEPT !.pc = labs[target]]
       ELSE [m EXCEPT !.registers[r] = @ - 1]

\* DECJZ jumping one past the index of its label
ExecDECJZPastLabel(m, instr, labs) ==
  LET r      == regname(instr.args[1])
      target == instr.args[2]
  IN IF m.registers[r] = 0
       THEN IF target \notin DOMAIN labs
              THEN [m EXCEPT !.err = "UnknownLabel"]
              ELSE [m EXCEPT !.pc = labs[target] + 1]
       ELSE [m EXCEPT !.registers[r] = @ - 1, !.pc = @ + 1]

\* DECJZ r label
ExecDECJZ(m, instr, labs) ==
  LET r      == regname(instr.args[1])
      target == instr.args[2]
  IN IF m.registers[r] = 0
       THEN IF target \notin DOMAIN labs
              THEN [m EXCEPT !.err = "UnknownLabel"]
              ELSE [m EXCEPT !.pc = labs[target]]
       ELSE [m EXCEPT !.registers[r] = @ - 1, !.pc = @ + 1]

\* GOTO looking its label up without the membership test
ExecGOTOUnchecked(m, instr, labs) ==
  LET target == instr.args[1]
  IN IF target \notin DOMAIN labs
       THEN [m EXCEPT !.err = "KeyError"]
       ELSE [m EXCEPT !.pc = labs[target]]

\* GOTO halting the machine when its label is unknown
ExecGOTOHalting(m, instr, labs) ==
  LET target == instr.args[1]
  IN IF target \notin DOMAIN labs
       THEN [m EXCEPT !.err = "UnknownLabel", !.halted = TRUE]
       ELSE [m EXCEPT !.pc = labs[target]]

\* GOTO label
ExecGOTO(m, instr, labs) ==
  LET target == instr.args[1]
  IN IF target \notin DOMAIN labs
       THEN [m EXCEPT !.err = "UnknownLabel"]
       ELSE [m EXCEPT !.pc = labs[target]]

\* PRINT showing POWER
ExecPRINTPower(m) ==
  [m EXCEPT !.out = Append(@, PrintEvent(m.registers["POWER"])),
            !.pc = @ + 1]

\* PRINT
ExecPRINT(m) ==
  [m EXCEPT !.out = Append(@, PrintEvent(m.registers["TIME"])),
            !.pc = @ + 1]

\* HALT printing its message and going on to the next instruction
ExecHALTGoingOn(m) ==
  [m EXCEPT !.out = Append(@, HaltEvent), !.pc = @ + 1]

\* HALT
ExecHALT(m) ==
  [m EXCEPT !.out = Append(@, HaltEvent), !.halted = TRUE]

\* 0 <= self.pc < len(self.program)
InBounds(p, prog) == 0 <= p /\ p < Len(prog)

\* step() from the fetch on: count the step, then dispatch on the opcode
Execute(m, instr, labs) ==
  LET m1 == [m EXCEPT !.steps = @ + 1]
  IN CASE instr.op = "SET"   -> ExecSET(m1, instr)
       [] instr.op = "INC"   -> ExecINC(m1, instr)
       [] instr.op = "DECJZ" -> ExecDECJZ(m1, instr, labs)
       [] instr.op = "GOTO"  -> ExecGOTO(m1, instr, labs)
       [] instr.op = "PRINT" -> ExecPRINT(m1)
       [] instr.op = "HALT"  -> ExecHALT(m1)
       [] OTHER              -> m1

\* step() without the test of self.halted
stepWhileHalted(m, prog, labs) ==
  IF ~InBounds(m.pc, prog) THEN [m EXCEPT !.halted = TRUE]
  ELSE Execute(m, prog[m.pc + 1], labs)

\* step() not setting self.halted when pc is out of bounds
stepOffTheEnd(m, prog, labs) ==
  IF m.halted THEN m
  ELSE IF ~InBounds(m.pc, prog) THEN m
  ELSE Execute(m, prog[m.pc + 1], labs)

\* step() printing the halt message on the implicit halt too
stepBeepOffTheEnd(m, prog, labs) ==
  IF m.halted THEN m
  ELSE IF ~InBounds(m.pc, prog) THEN ExecHALT(m)
  ELSE Execute(m, prog[m.pc + 1], labs)

\* step(): the machine it leaves
step(m, prog, labs) ==
  IF m.halted THEN m
  ELSE IF ~InBounds(m.pc, prog) THEN [m EXCEPT !.halted = TRUE]
  ELSE Execute(m, prog[m.pc + 1], labs)

\* the instruction step() is about to fetch, if any
Fetches == ~halted /\ InBounds(pc, program)

Fetched == program[pc + 1]

\* the path step() is about to take
Path ==
  IF halted THEN "noop"
  ELSE IF ~InBounds(pc, program) THEN "implicit"
  ELSE Fetched.op

\* the explored part of the state space
WithinBounds(m) ==
  /\ \A r \in RegNames : m.registers[r] \in (0 - MaxNeg)..MaxVal
  /\ m.steps <= MaxSteps

\* DECJZ executions counted by branch
CountDECJZ ==
  IF Fetches /\ Fetched.op = "DECJZ"
    THEN IF registers[regname(Fetched.args[1])] = 0
           THEN [decjz EXCEPT !.jump = @ + 1]
           ELSE [decjz EXCEPT !.dec = @ + 1]
    ELSE decjz

\* the machine m replaces the current one
Becomes(m) ==
  /\ WithinBounds(m)
  /\ registers' = m.registers
  /\ pc' = m.pc
  /\ halted' = m.halted
  /\ steps' = m.steps
  /\ out' = m.out
  /\ err' = m.err
  /\ decjz' = CountDECJZ
  /\ did' = Path
  /\ fetches' = IF Fetches THEN fetches + 1 ELSE fetches
  /\ UNCHANGED << program, labels, src, seeded >>

Init ==
  /\ registers = [r \in RegNames |-> 0]
  /\ program = << >>
  /\ labels = EmptyLabels
  /\ pc = 0
  /\ halted = FALSE
  /\ steps = 0
  /\ out = << >>
  /\ running = FALSE
  /\ max_steps = None
  /\ call = "init"
  /\ err = "none"
  /\ did = "init"
  /\ src = 0
  /\ began = 0
  /\ seeded = [r \in RegNames |-> 0]
  /\ decjz = [dec |-> 0, jump |-> 0]
  /\ fetches = 0

\* load_program zeroing the registers
LoadProgramZeroing(s) ==
  /\ ~running
  /\ LET r == IF ClearProgram(program) = << >>
                   /\ ClearLabels(labels) = EmptyLabels
                THEN Loaded[s]
                ELSE load_program(Sources[s], program, labels)
     IN /\ program' = r.program
        /\ labels' = r.labels
        /\ err' = r.err
  /\ registers' = [r \in RegNames |-> 0]
  /\ pc' = 0
  /\ halted' = FALSE
  /\ steps' = 0
  /\ call' = "load"
  /\ did' = "load"
  /\ src' = s
  /\ out' = << >>
  /\ seeded' = registers
  /\ decjz' = [dec |-> 0, jump |-> 0]
  /\ fetches' = 0
  /\ max_steps' = None
  /\ began' = 0
  /\ UNCHANGED running

\* vm.load_program(Sources[s])
LoadProgram(s) ==
  /\ ~running
  /\ LET r == \* Loaded[s] is the value of load_program on an empty program
              \* and label table, computed once
              IF ClearProgram(program) = << >>
                   /\ ClearLabels(labels) = EmptyLabels
                THEN Loaded[s]
                ELSE load_program(Sources[s], program, labels)
     IN /\ program' = r.program
        /\ labels' = r.labels
        /\ err' = r.err
  /\ pc' = 0
  /\ halted' = FALSE
  /\ steps' = 0
  /\ call' = "load"
  /\ did' = "load"
  /\ src' = s
  /\ out' = << >>
  /\ seeded' = registers
  /\ decjz' = [dec |-> 0, jump |-> 0]
  /\ fetches' = 0
  /\ max_steps' = None
  /\ began' = 0
  /\ UNCHANGED << registers, running >>

\* vm.step()
Step ==
  /\ ~running
  /\ Becomes(step(Machine, program, labels))
  /\ call' = "step"
  /\ max_steps' = None
  /\ began' = 0
  /\ UNCHANGED running

\* the limit test one step early
LimitNear(b, n) == b # None /\ n + 1 >= b

\* the limit test with > for >=
LimitPassed(b, n) == b # None /\ n > b

\* max_steps is not None and self.steps >= max_steps
LimitReached(b, n) == b # None /\ n >= b

\* one turn of run()'s while loop under the budget b
RunLoop(b) ==
  /\ call' = "run"
  /\ max_steps' = b
  /\ IF halted
       THEN /\ running' = FALSE
            /\ err' = "none"
            /\ did' = "return"
            /\ UNCHANGED << registers, program, labels, pc, halted, steps,
                            out, src, seeded, decjz, fetches >>
     ELSE IF LimitReached(b, steps)
       THEN /\ running' = FALSE
            /\ err' = "StepLimit"
            /\ did' = "raise"
            /\ UNCHANGED << registers, program, labels, pc, halted, steps,
                            out, src, seeded, decjz, fetches >>
     ELSE LET m == step(Machine, program, labels)
          IN /\ Becomes(m)
             /\ running' = (m.err = "none")

\* vm.run(max_steps=b): the call, up to the end of the first turn of its loop
Run(b) ==
  /\ ~running
  /\ began' = steps
  /\ RunLoop(b)

\* a later turn of the loop of the run() call in progress
RunIter ==
  /\ running
  /\ began' = began
  /\ RunLoop(max_steps)

\* reset_registers leaving self.halted as it is
ResetRegistersStillHalted(t, p) ==
  /\ ~running
  /\ registers' = [registers EXCEPT !["TIME"] = t, !["POWER"] = p]
  /\ pc' = 0
  /\ halted' = halted
  /\ steps' = 0
  /\ call' = "reset"
  /\ err' = "none"
  /\ did' = "reset"
  /\ out' = << >>
  /\ seeded' = [TIME |-> t, POWER |-> p]
  /\ decjz' = [dec |-> 0, jump |-> 0]
  /\ fetches' = 0
  /\ max_steps' = None
  /\ began' = 0
  /\ UNCHANGED << program, labels, running, src >>

\* vm.reset_registers(TIME=t, POWER=p)
ResetRegisters(t, p) ==
  /\ ~running
  /\ registers' = [registers EXCEPT !["TIME"] = t, !["POWER"] = p]
  /\ pc' = 0
  /\ halted' = FALSE
  /\ steps' = 0
  /\ call' = "reset"
  /\ err' = "none"
  /\ did' = "reset"
  /\ out' = << >>
  /\ seeded' = [TIME |-> t, POWER |-> p]
  /\ decjz' = [dec |-> 0, jump |-> 0]
  /\ fetches' = 0
  /\ max_steps' = None
  /\ began' = 0
  /\ UNCHANGED << program, labels, running, src >>

Budgets == {None} \cup (0..MaxBudget)

Seeds == 0..MaxSeed

Next ==
  \/ \E s \in SourceIds : LoadProgram(s)
  \/ Step
  \/ \E b \in Budgets : Run(b)
  \/ RunIter
  \/ \E t, p \in Seeds : ResetRegisters(t, p)

Spec == Init /\ [][Next]_vars

\* the run() loop is never abandoned between two turns
FairSpec == Spec /\ WF_vars(RunIter)

(***************************************************************************)
(* Properties.                                                             *)
(***************************************************************************)
\* the transition is a step() call, or a turn of run()'s loop
Stepping == call' \in {"step", "run"}

\* the transition executes an instruction with opcode op
Executes(op) == Stepping /\ did' = op

NonNegative(regs) == \A r \in RegNames : regs[r] >= 0

\* the last load_program call succeeded
LoadedOK == src # 0 /\ Loaded[src].err = "none"

\* C1: once halted is true, a step() or run() call executes no instruction
\* and changes neither the registers, pc, the step counter, the halted flag,
\* the output, the program nor the label table, and returns normally; only
\* load_program and reset_registers leave Halted.
C1_HaltedAbsorbing ==
  [][ /\ (halted /\ Stepping) =>
          /\ registers' = registers
          /\ pc' = pc
          /\ steps' = steps
          /\ halted'
          /\ out' = out
          /\ program' = program
          /\ labels' = labels
          /\ err' = "none"
          /\ did' \in {"noop", "return"}
      /\ (halted /\ ~halted') => call' \in {"load", "reset"} ]_vars

\* a step() call found the machine halted after a HALT
C1_Witness ==
  /\ call = "step"
  /\ did = "noop"
  /\ halted
  /\ out # << >>

\* C2: a load_program call that fails leaves neither instructions nor labels
\* of the failing text in the machine.
C2_NoPartialLoad ==
  (call = "load" /\ err # "none") =>
    (program = << >> /\ labels = EmptyLabels)

\* the transition executes SET with a negative literal
NegativeSET ==
  /\ Executes("SET")
  /\ IntOf(Fetched.args[2]) < 0

\* C3 as stated: after a successful load, no step()/run() transition takes
\* non-negative registers to a negative value.
C3_NoInstructionGoesNegative ==
  [][ (Stepping /\ LoadedOK /\ NonNegative(registers))
        => NonNegative(registers') ]_vars

\* C3 amended: no step()/run() transition other than a SET with a negative
\* literal takes non-negative registers to a negative value, and such a SET
\* sets its register to that literal.
C3_NonNegativeButSET ==
  [][ /\ (Stepping /\ NonNegative(registers) /\ ~NegativeSET)
          => NonNegative(registers')
      /\ NegativeSET
          => registers'[regname(Fetched.args[1])] = IntOf(Fetched.args[2]) ]_vars

\* a DECJZ found its register at 0 and left it there
C3_Witness ==
  /\ did = "DECJZ"
  /\ decjz.jump > 0
  /\ seeded["TIME"] > 0
  /\ NonNegative(registers)
  /\ registers["TIME"] = 0

\* C4: DECJZ r L with r = 0 leaves r at 0 and sets pc to labels[L]; with
\* r = n > 0 it sets r to n - 1 and pc to pc + 1; the other register is
\* unchanged in both cases.
C4_DECJZ ==
  [][ Executes("DECJZ") =>
        LET r == regname(Fetched.args[1])
            L == Fetched.args[2]
        IN IF registers[r] = 0
             THEN L \in DOMAIN labels =>
                    (registers' = registers /\ pc' = labels[L])
             ELSE /\ registers' = [registers EXCEPT ![r] = registers[r] - 1]
                  /\ pc' = pc + 1 ]_vars

\* DECJZ has taken both branches, the jump last and away from pc + 1
C4_Witness ==
  /\ did = "DECJZ"
  /\ decjz.dec > 0
  /\ decjz.jump > 0
  /\ pc > 1
  /\ err = "none"

\* the number under which a text stands in Sources
IdOf(text) == CHOOSE s \in SourceIds : Sources[s] = text

\* C5: the loop 'loop: DECJZ r end; GOTO loop; end:' started with r = n >= 0
\* is Halted only after exactly n + 1 DECJZ executions, n of them
\* decrementing and 1 jumping, with r = 0; and run() on it reaches Halted.
C5_Countdown ==
  /\ [](/\ (src = IdOf(COUNTDOWN_TIME) /\ halted /\ seeded["TIME"] >= 0) =>
             (decjz = [dec |-> seeded["TIME"], jump |-> 1]
                /\ registers["TIME"] = 0)
        /\ (src = IdOf(COUNTDOWN_POWER) /\ halted /\ seeded["POWER"] >= 0) =>
             (decjz = [dec |-> seeded["POWER"], jump |-> 1]
                /\ registers["POWER"] = 0))
  /\ (src = IdOf(COUNTDOWN_TIME) /\ running /\ max_steps = None
        /\ registers["TIME"] >= 0) ~> halted
  /\ (src = IdOf(COUNTDOWN_POWER) /\ running /\ max_steps = None
        /\ registers["POWER"] >= 0) ~> halted

\* run() has counted POWER down from 2
C5_Witness ==
  /\ src = IdOf(COUNTDOWN_POWER)
  /\ call = "run"
  /\ halted
  /\ seeded["POWER"] = 2
  /\ decjz = [dec |-> 2, jump |-> 1]
  /\ steps = 5

\* a run(max_steps=B) call on a machine whose step counter was 0 has ended
\* without reaching Halted
BudgetedRunEnded ==
  /\ call = "run"
  /\ ~running
  /\ max_steps # None
  /\ began = 0
  /\ ~halted

\* C6 as stated: a run(max_steps=B) of a freshly loaded program that ends
\* without reaching Halted has failed with the step-limit error, the step
\* counter being B.
C6_AlwaysStepLimit ==
  BudgetedRunEnded => (err = "StepLimit" /\ steps = max_steps)

\* C6 amended: a run(max_steps=B) of a freshly loaded program that ends
\* without reaching Halted and without the unknown-label error has failed
\* with the step-limit error, the step counter being B; and the step counter
\* never passes B during the run.
C6_StepBudget ==
  /\ (BudgetedRunEnded /\ err # "UnknownLabel") =>
       (err = "StepLimit" /\ did = "raise" /\ steps = max_steps)
  /\ (call = "run" /\ max_steps # None /\ began = 0) => steps <= max_steps

\* run(max_steps=3) stopped the spinning program after 3 instructions
C6_Witness ==
  /\ BudgetedRunEnded
  /\ src = IdOf(SPIN_PROGRAM)
  /\ err = "StepLimit"
  /\ max_steps = 3
  /\ steps = 3

\* C7: the addition program seeded TIME = a, POWER = b (a, b >= 0) is Halted
\* only with TIME = a + b, POWER = 0 and the output made of exactly one halt
\* event; and run() on it reaches Halted.
C7_Addition ==
  /\ []((src = IdOf(ADD_PROGRAM) /\ halted /\ NonNegative(seeded)) =>
          /\ registers["TIME"] = seeded["TIME"] + seeded["POWER"]
          /\ registers["POWER"] = 0
          /\ out = << HaltEvent >>)
  /\ (src = IdOf(ADD_PROGRAM) /\ running /\ max_steps = None
        /\ NonNegative(seeded)
        /\ seeded["TIME"] + seeded["POWER"] <= MaxVal) ~> halted

\* the demo: run() has added 3 + 2
C7_Witness ==
  /\ src = IdOf(ADD_PROGRAM)
  /\ call = "run"
  /\ halted
  /\ seeded = [TIME |-> 3, POWER |-> 2]
  /\ registers = [TIME |-> 5, POWER |-> 0]
  /\ out = << HaltEvent >>

\* the transition prints e
Emits(e) == out' = Append(out, e)

\* C8: step() on a machine that is not halted and whose pc is outside
\* [0, len(program)) sets halted and does nothing else; a halt event is
\* printed exactly by the transitions that execute HALT.
C8_ImplicitHalt ==
  [][ /\ (Stepping /\ ~halted /\ ~InBounds(pc, program) /\ did' # "raise") =>
          /\ halted'
          /\ out' = out
          /\ steps' = steps
          /\ registers' = registers
          /\ pc' = pc
          /\ err' = "none"
      /\ Emits(HaltEvent) <=> Executes("HALT") ]_vars

\* the printing program ran off its end
C8_Witness ==
  /\ did = "implicit"
  /\ halted
  /\ pc = Len(program)
  /\ Len(out) = 3
  /\ \A i \in 1..Len(out) : out[i] # HaltEvent

\* C9: each executed PRINT appends one event carrying the value TIME has at
\* that moment, changes no register and advances pc by 1; no other
\* instruction prints such an event; so the three PRINTs of the printing
\* program started with TIME = t show t, t + 1, t + 2 in that order.
C9_PrintOrder ==
  /\ [][ /\ Executes("PRINT") =>
             /\ Emits(PrintEvent(registers["TIME"]))
             /\ registers' = registers
             /\ pc' = pc + 1
         /\ (Stepping /\ did' # "PRINT") =>
             (out' = out \/ Emits(HaltEvent)) ]_vars
  /\ [](src = IdOf(PRINT_PROGRAM) =>
          \A i \in 1..Len(out) : out[i] = PrintEvent(seeded["TIME"] + i - 1))

\* the three PRINTs showed 0, 1, 2 with POWER incremented in between
C9_Witness ==
  /\ src = IdOf(PRINT_PROGRAM)
  /\ out = << PrintEvent(0), PrintEvent(1), PrintEvent(2) >>
  /\ registers["POWER"] # seeded["POWER"]

\* the label of the DECJZ or GOTO being fetched
Target ==
  IF Fetched.op = "GOTO" THEN Fetched.args[1] ELSE Fetched.args[2]

\* C10 as stated: every executed DECJZ or GOTO whose label is absent from the
\* label table fails with the unknown-label error.
C10_EveryJumpChecked ==
  [][ ((Executes("DECJZ") \/ Executes("GOTO")) /\ Target \notin DOMAIN labels)
        => err' = "UnknownLabel" ]_vars

\* the transition needs the index of its label: a GOTO, or a DECJZ on a
\* register that is 0
Resolves ==
  \/ Executes("GOTO")
  \/ Executes("DECJZ") /\ registers[regname(Fetched.args[1])] = 0

\* C10 amended: the unknown-label error is raised exactly by an executed GOTO,
\* or an executed DECJZ whose register is 0, whose label is absent from the
\* label table (a DECJZ on a non-zero register decrements without looking its
\* label up); load_program never raises it.
C10_UnknownLabel ==
  /\ [][ (err' = "UnknownLabel") <=>
           (Resolves /\ Target \notin DOMAIN labels) ]_vars
  /\ [](call = "load" => err # "UnknownLabel")

\* GOTO nowhere failed after the DECJZ before it had decremented
C10_Witness ==
  /\ err = "UnknownLabel"
  /\ did = "GOTO"
  /\ decjz.dec = 1
  /\ steps = 2

(***************************************************************************)
(* The text read line by line, for the properties of the loader.           *)
(***************************************************************************)
\* the line defines a label
IsLabelLine(raw) == EndsWithColon(Normalize(raw))

\* the line is neither blank, comment-only nor a label definition
IsInstrLine(raw) == Normalize(raw) # << >> /\ ~IsLabelLine(raw)

\* the number of instruction lines above line k of the text
InstrLinesBefore(text, k) ==
  Cardinality({j \in 1..(k - 1) : IsInstrLine(text[j])})

NumInstrLines(text) == InstrLinesBefore(text, Len(text) + 1)

\* the lines of the text that define labels
LabelLines(text) == {k \in 1..Len(text) : IsLabelLine(text[k])}

\* the name line k defines
NameAt(text, k) == LabelOf(Normalize(text[k]))

\* the transition jumps: a GOTO, or a DECJZ on a register that is 0, whose
\* label is in the table
Jumps ==
  /\ Executes("GOTO") \/ Executes("DECJZ")
  /\ Fetched.op = "DECJZ" => registers[regname(Fetched.args[1])] = 0
  /\ (IF Fetched.op = "GOTO" THEN Fetched.args[1] ELSE Fetched.args[2])
       \in DOMAIN labels

\* C11: after a successful load the label table holds exactly the labels the
\* text defines, each mapped to the number of instruction lines above its
\* definition, wherever the referencing DECJZ/GOTO stands; a taken jump sets
\* pc to that number.
C11_LabelResolution ==
  /\ [](LoadedOK =>
          /\ DOMAIN labels =
               {NameAt(Sources[src], k) : k \in LabelLines(Sources[src])}
          /\ \A k \in LabelLines(Sources[src]) :
               labels[NameAt(Sources[src], k)] =
                 InstrLinesBefore(Sources[src], k))
  /\ [][ (LoadedOK /\ Jumps) =>
           \E k \in LabelLines(Sources[src]) :
             /\ NameAt(Sources[src], k) =
                  (IF Fetched.op = "GOTO" THEN Fetched.args[1]
                                          ELSE Fetched.args[2])
             /\ pc' = InstrLinesBefore(Sources[src], k) ]_vars

\* DECJZ has jumped forward to fwd, defined two lines below it, over the GOTO
C11_Witness ==
  /\ src = IdOf(JUMP_PROGRAM)
  /\ did = "DECJZ"
  /\ decjz = [dec |-> 0, jump |-> 1]
  /\ pc = 2
  /\ err = "none"

\* the opcode and the arguments written on an instruction line
Written(raw) ==
  LET tokens == Tokens(Normalize(raw))
  IN [op |-> Upper(tokens[1]), args |-> Tail(tokens)]

\* every instruction line is well-formed and the labels are non-empty and
\* distinct
WellFormed(text) ==
  /\ \A k \in 1..Len(text) :
       IsInstrLine(text[k]) =>
         Validate(Written(text[k]).op, Written(text[k]).args) = "none"
  /\ \A k \in LabelLines(text) : NameAt(text, k) # << >>
  /\ \A k1, k2 \in LabelLines(text) :
       k1 # k2 => NameAt(text, k1) # NameAt(text, k2)

\* the i-th instruction line of the text
InstrLine(text, i) ==
  text[CHOOSE k \in 1..Len(text) :
         IsInstrLine(text[k]) /\ InstrLinesBefore(text, k) = i - 1]

\* C12: a text whose instruction lines are all well-formed and whose labels
\* are non-empty and distinct loads without error, and the program is its
\* instruction lines in order, one instruction each; labels, blank lines and
\* comments give none, so len(program) is the number of instruction lines and
\* the slot counter pass 1 ends with.
C12_LineMapping ==
  (src # 0 /\ WellFormed(Sources[src])) =>
    /\ call = "load" => err = "none"
    /\ Len(program) = NumInstrLines(Sources[src])
    /\ \A i \in 1..Len(program) :
         /\ << program[i].op >> = Written(InstrLine(Sources[src], i)).op
         /\ program[i].args = Written(InstrLine(Sources[src], i)).args
    /\ Len(program) = Pass1(Sources[src], 0, EmptyLabels).idx

\* the six lines of the commented countdown text gave two instructions
C12_Witness ==
  /\ src = IdOf(COUNTDOWN_POWER)
  /\ call = "load"
  /\ err = "none"
  /\ Len(program) = 2
  /\ program[2].op = "GOTO"

\* C13: whatever the machine held before, a load_program call that succeeds
\* leaves the program and the label table a newly constructed machine would
\* get from the same text (so len(program) is the number of instruction lines
\* of that text alone), with pc = 0, halted false and the step counter 0;
\* loading 'FOO TIME' fails with the unknown-opcode error and leaves no
\* instruction.
C13_ReloadSupersedes ==
  [][ /\ (call' = "load" /\ err' = "none") =>
          /\ program' = Loaded[src'].program
          /\ labels' = Loaded[src'].labels
          /\ Len(program') = NumInstrLines(Sources[src'])
          /\ pc' = 0
          /\ ~halted'
          /\ steps' = 0
      /\ (call' = "load" /\ src' = IdOf(FOO_PROGRAM)) =>
          /\ err' = "UnknownOpcode"
          /\ program' = << >> ]_vars

\* the countdown text was loaded over the program that had set TIME to -1
\* and POWER to 2
C13_Witness ==
  /\ call = "load"
  /\ err = "none"
  /\ src = IdOf(COUNTDOWN_TIME)
  /\ registers = [TIME |-> 0 - 1, POWER |-> 2]
  /\ Len(program) = 2
  /\ pc = 0

\* C14: reset_registers(TIME=t, POWER=p) sets the registers to t and p, pc
\* to 0, halted to false and the step counter to 0, whatever the state it is
\* called in, and leaves the program and the label table unchanged.
C14_ResetFrame ==
  [][ call' = "reset" =>
        /\ registers' = seeded'
        /\ pc' = 0
        /\ ~halted'
        /\ steps' = 0
        /\ program' = program
        /\ labels' = labels ]_vars

\* the addition program is seeded with 3 and 2 and ready to run
C14_Witness ==
  /\ call = "reset"
  /\ src = IdOf(ADD_PROGRAM)
  /\ registers = [TIME |-> 3, POWER |-> 2]
  /\ Len(program) = 4
  /\ Cardinality(DOMAIN labels) = 2
  /\ pc = 0
  /\ ~halted

Opcodes == {"SET", "INC", "DECJZ", "GOTO", "PRINT", "HALT"}

\* C15: a step() that executes an instruction adds exactly 1 to the step
\* counter, changes no register but the one the instruction names, changes
\* neither the program nor the label table and prints at most one event;
\* SET r v sets r to v and INC r adds 1 to r, each advancing pc by 1; the
\* step counter is always the number of instructions fetched since the last
\* load or reset.
C15_StepEffect ==
  /\ [][ (Stepping /\ did' \in Opcodes) =>
           /\ steps' = steps + 1
           /\ program' = program
           /\ labels' = labels
           /\ out' = out \/ (\E e \in {HaltEvent, PrintEvent(registers["TIME"])} :
                               Emits(e))
           /\ \A r \in RegNames :
                registers'[r] # registers[r] =>
                  /\ did' \in {"SET", "INC", "DECJZ"}
                  /\ r = regname(Fetched.args[1])
           /\ did' = "SET" =>
                /\ registers' =
                     [registers EXCEPT ![regname(Fetched.args[1])] =
                                         IntOf(Fetched.args[2])]
                /\ pc' = pc + 1
           /\ did' = "INC" =>
                /\ registers' =
                     [registers EXCEPT ![regname(Fetched.args[1])] = @ + 1]
                /\ pc' = pc + 1 ]_vars
  /\ [](steps = fetches)

\* the second SET of the SET program has put 2 in POWER, which held 1
C15_Witness ==
  /\ src = IdOf(SET_PROGRAM)
  /\ did = "SET"
  /\ seeded["POWER"] = 1
  /\ registers["POWER"] = 2
  /\ steps = 2
  /\ pc = 2

\* C16: executing HALT prints exactly one halt event, sets halted and leaves
\* pc and both registers unchanged; so the output since the last load or
\* reset holds at most one halt event, with nothing printed after it, and
\* holds one only when the machine is halted.
C16_ExplicitHalt ==
  /\ [][ Executes("HALT") =>
           /\ Emits(HaltEvent)
           /\ halted'
           /\ pc' = pc
           /\ registers' = registers ]_vars
  /\ [](\A i \in 1..Len(out) :
          out[i] = HaltEvent => (i = Len(out) /\ halted))

\* HALT was executed after a PRINT
C16_Witness ==
  /\ did = "HALT"
  /\ halted
  /\ Len(out) = 2
  /\ out[1] = PrintEvent(registers["TIME"])
  /\ out[2] = HaltEvent
  /\ pc = 2

\* a run(max_steps=B) call on a machine whose step counter was 0 has ended
BudgetedRunOver ==
  /\ call = "run"
  /\ ~running
  /\ max_steps # None
  /\ began = 0

\* the program has nothing left to execute: halted is set, or pc is out of
\* bounds and the next step() would set it
Finished == halted \/ ~InBounds(pc, program)

\* C17 as stated: a run(max_steps=B) of a freshly loaded program that is
\* through after k <= B instructions, by HALT or by running off its end, has
\* returned normally with halted true.
C17_ReturnsWithinBudget ==
  (BudgetedRunOver /\ Finished /\ steps <= max_steps) =>
    (halted /\ err = "none")

\* C17 amended: a run(max_steps=B) of a freshly loaded program that ends with
\* halted true has returned normally after at most B instructions; one that
\* ends in the step-limit error has executed exactly B instructions without
\* halted being set, which includes the program that ran off its end with
\* its B-th instruction (B = k, the empty program with B = 0): running off
\* the end needs B > k, HALT as k-th instruction needs B >= k.
C17_BudgetedRun ==
  /\ (BudgetedRunOver /\ halted) => (err = "none" /\ steps <= max_steps)
  /\ (BudgetedRunOver /\ err = "StepLimit") =>
       (~halted /\ steps = max_steps)
  /\ (BudgetedRunOver /\ Finished /\ steps < max_steps) =>
       (halted /\ err = "none")
  /\ (BudgetedRunOver /\ Finished /\ did = "HALT") =>
       (halted /\ err = "none")

\* run(max_steps=3) returned from the SET program, whose third instruction is
\* HALT
C17_Witness ==
  /\ BudgetedRunOver
  /\ src = IdOf(SET_PROGRAM)
  /\ max_steps = 3
  /\ steps = 3
  /\ halted
  /\ err = "none"
  /\ did = "return"

\* C18: after a successful load, pc stays within 0..len(program) and every
\* label maps to an index within 0..len(program), whatever is stepped, run
\* or reset afterwards.
C18_PcInRange ==
  LoadedOK =>
    /\ 0 <= pc
    /\ pc <= Len(program)
    /\ \A l \in DOMAIN labels : labels[l] \in 0..Len(program)

\* the countdown has jumped to its label end, which is the length of the
\* program
C18_Witness ==
  /\ src = IdOf(COUNTDOWN_TIME)
  /\ did = "DECJZ"
  /\ decjz.jump = 1
  /\ pc = Len(program)
  /\ \E l \in DOMAIN labels : labels[l] = Len(program)
  /\ ~halted

\* C19: a step that fails on an unknown label leaves the registers, pc and
\* the halted flag as they were, with halted false and the failed
\* instruction counted in steps and nothing printed; stepping again fails
\* again at the same pc.
C19_FailedStep ==
  /\ [][ (Stepping /\ err' = "UnknownLabel") =>
           /\ registers' = registers
           /\ pc' = pc
           /\ halted' = halted
           /\ ~halted'
           /\ steps' = steps + 1
           /\ out' = out
           /\ program' = program
           /\ labels' = labels ]_vars
  /\ [][ (err = "UnknownLabel" /\ Stepping /\ did' # "raise") =>
           (err' = "UnknownLabel" /\ pc' = pc) ]_vars

\* GOTO nowhere has failed twice in a row at index 1
C19_Witness ==
  /\ src = IdOf(JUMP_PROGRAM)
  /\ err = "UnknownLabel"
  /\ did = "GOTO"
  /\ call = "step"
  /\ pc = 1
  /\ steps = 3
  /\ decjz.dec = 1
  /\ ~halted

\* C20: load_program leaves the registers as they were, whether the load
\* succeeds or fails.
C20_LoadKeepsRegisters ==
  [][ call' = "load" => registers' = registers ]_vars

\* a load has failed on a machine whose registers held 3 and 1
C20_Witness ==
  /\ call = "load"
  /\ err # "none"
  /\ registers = [TIME |-> 3, POWER |-> 1]
  /\ seeded = registers

=============================================================================
